---- MODULE Spec2Model ----
(***************************************************************************)
(* Model of solution/Pipeline1.py: the custom pandas transformers and the  *)
(* preprocess_pipeline assembled from them with sklearn's make_pipeline    *)
(* and FeatureUnion.                                                       *)
(*                                                                         *)
(* A table (pandas DataFrame) is a sequence of columns; a column is a      *)
(* record [name, dtype, vals, cats]: its label, its dtype ("int64",         *)
(* "float64", "object", "category"), its cells and, for a category column, *)
(* its categories.  Category labels are the integers 1..MaxLabel, read as  *)
(* the labels' ranks in ascending sort order; Unknown is the rank of the   *)
(* literal "Unknown".  A missing cell is NaN.  A cell of the feature       *)
(* matrix is a pair <<p, q>> standing for the real number p / sqrt(q).     *)
(***************************************************************************)
EXTENDS Integers, Sequences, FiniteSets, TLC

MaxRows == 2
MaxNum == 1
MaxLabel == 3

NaN == -1
Unknown == 2

Labels == 1..MaxLabel

Range(s) == {s[i] : i \in 1..Len(s)}

\* The sequence f with every element worked out
Tup(f) == f \o <<>>

\* ------------------------------------------------------------------ tables

Names(T) == [i \in 1..Len(T) |-> T[i].name]

HasCol(T, c) == \E i \in 1..Len(T) : T[i].name = c

ColOf(T, c) == T[CHOOSE i \in 1..Len(T) : T[i].name = c]

NRows(T) == IF Len(T) = 0 THEN 0 ELSE Len(T[1].vals)

\* X.loc[:, col.name] = col : the whole column is replaced in place
SetCol(T, col) == [T EXCEPT ![CHOOSE i \in 1..Len(T) : T[i].name = col.name] = col]

RECURSIVE SelectSeq2(_, _)
SelectSeq2(T, dtypes) ==
    IF Len(T) = 0 THEN <<>>
    ELSE IF T[1].dtype \in dtypes THEN <<T[1]>> \o SelectSeq2(Tail(T), dtypes)
    ELSE SelectSeq2(Tail(T), dtypes)

\* An object that shares its columns with the table it was taken from writes
\* its in-place changes through to that table; a copy does not.
WriteThrough(T, part, copies) ==
    IF copies THEN T
    ELSE Tup([i \in 1..Len(T) |-> IF HasCol(part, T[i].name) THEN ColOf(part, T[i].name) ELSE T[i]])

\* ------------------------------------------------------- ColumnSelector

\* X[self.columns] with a list of labels takes the columns into a new frame
GetItemCopies == TRUE

ColsErrorFirst(columns, X) ==
    LET miss == {i \in 1..Len(columns) : ~HasCol(X, columns[i])}
    IN  IF miss = {} THEN {} ELSE {columns[CHOOSE i \in miss : \A j \in miss : i <= j]}

\* cols_error = list(set(self.columns) - set(X.columns))
ColsError(columns, X) == Range(columns) \ Range(Names(X))

ColumnSelectorTransform(columns, X) ==
    IF \A i \in 1..Len(columns) : HasCol(X, columns[i])
    THEN [err |-> "none", cols_error |-> {},
          out |-> Tup([i \in 1..Len(columns) |-> ColOf(X, columns[i])])]
    ELSE [err |-> "KeyError", cols_error |-> ColsError(columns, X), out |-> <<>>]

\* --------------------------------------------------- CustomTypeTransformer

CoerceColumns ==
    <<"workclass", "education", "marital-status", "occupation",
      "relationship", "race", "sex", "native-country">>

\* Series.astype('category'): the categories are the values present
AsCategory(col) ==
    IF col.dtype = "category" THEN col
    ELSE [col EXCEPT !.dtype = "category",
                     !.cats = {v \in Range(col.vals) : v # NaN}]

RECURSIVE CoerceFrom(_, _)
CoerceFrom(X, k) ==
    IF k > Len(CoerceColumns) THEN [err |-> "none", X |-> X]
    ELSE IF ~HasCol(X, CoerceColumns[k]) THEN [err |-> "KeyError", X |-> X]
    ELSE CoerceFrom(SetCol(X, AsCategory(ColOf(X, CoerceColumns[k]))), k + 1)

\* assigns into X column by column and returns X itself
CustomTypeTransform(X) == CoerceFrom(X, 1)

\* ----------------------------------------------------------- TypeSelector

\* DataFrame.select_dtypes returns a new frame
SelectDtypesCopies == TRUE

TypeSelectorTransform(dtypes, X) == SelectSeq2(X, dtypes)

\* ------------------------------------------- MissingCategoricalsTransformer

Count(col, v) == Cardinality({i \in 1..Len(col.vals) : col.vals[i] = v})

\* Series.value_counts() counts every category of a category column, the
\* unused ones with 0; index[0] is a value of the highest count
MostFrequent(col) ==
    LET counted == IF col.dtype = "category" THEN col.cats
                   ELSE {v \in Range(col.vals) : v # NaN}
    IN  {v \in counted : \A w \in counted : Count(col, w) <= Count(col, v)}

\* Series.fillna(v)
FillNa(col, v) ==
    [col EXCEPT !.vals = Tup([i \in 1..Len(col.vals) |-> IF col.vals[i] = NaN THEN v ELSE col.vals[i]])]

\* Series.cat.add_categories("Unknown"): a new category must not be an old one
AddCategories(col) ==
    IF Unknown \in col.cats THEN [ok |-> FALSE, col |-> col]
    ELSE [ok |-> TRUE, col |-> [col EXCEPT !.cats = @ \cup {Unknown}]]

\* The loop over X.columns from column i on; pick[i] is the value that
\* value_counts().index[0] yields for column i (any of the most frequent ones).
RECURSIVE ImputeFrom(_, _, _, _)
ImputeFrom(strategy, X, i, pick) ==
    IF i > Len(X) THEN [err |-> "none", X |-> X]
    ELSE IF strategy = "none" THEN
        IF X[i].dtype # "category" THEN [err |-> "AttributeError", X |-> X]
        ELSE IF ~AddCategories(X[i]).ok THEN [err |-> "ValueError", X |-> X]
        ELSE ImputeFrom(strategy, [X EXCEPT ![i] = FillNa(AddCategories(X[i]).col, Unknown)],
                        i + 1, pick)
    ELSE IF strategy = "most_frequent" THEN
        IF MostFrequent(X[i]) = {} THEN [err |-> "IndexError", X |-> X]
        ELSE ImputeFrom(strategy, [X EXCEPT ![i] = FillNa(X[i], pick[i])], i + 1, pick)
    ELSE [err |-> "Exception", X |-> X]

\* assigns into X column by column and returns X itself
ImputerTransform(strategy, X, pick) == ImputeFrom(strategy, X, 1, pick)

\* The values value_counts().index[0] can yield, column by column
Picks(X) ==
    {pick \in [1..Len(X) -> Labels] :
        \A i \in 1..Len(X) :
            IF MostFrequent(X[i]) = {} THEN pick[i] = 1 ELSE pick[i] \in MostFrequent(X[i])}

\* ------------------------------------------------ PipelineAwareLabelEncoder

\* np.unique: the distinct values in ascending order
RECURSIVE SortSet(_)
SortSet(S) ==
    IF S = {} THEN <<>>
    ELSE LET m == CHOOSE x \in S : \A y \in S : x <= y
         IN  <<m>> \o SortSet(S \ {m})

IndexOf(s, v) == CHOOSE i \in 1..Len(s) : s[i] = v

\* codes in order of first appearance
RECURSIVE Appearance(_)
Appearance(vals) ==
    IF Len(vals) = 0 THEN <<>>
    ELSE LET rest == Appearance(SubSeq(vals, 1, Len(vals) - 1))
             v == vals[Len(vals)]
         IN  IF v \in Range(rest) THEN rest ELSE Append(rest, v)

LabelEncoderFitTransformAppearance(vals) ==
    Tup([i \in 1..Len(vals) |-> IndexOf(Appearance(vals), vals[i]) - 1])

\* LabelEncoder().fit_transform(y): classes_ = np.unique(y), each value
\* becomes its index in classes_
LabelEncoderFitTransform(vals) ==
    LET classes == SortSet(Range(vals))
    IN  Tup([i \in 1..Len(vals) |-> IndexOf(classes, vals[i]) - 1])

\* assigns the codes into X column by column and returns X itself
PipelineAwareLabelEncoderTransform(X) ==
    Tup([i \in 1..Len(X) |->
        [X[i] EXCEPT !.dtype = "int64", !.vals = LabelEncoderFitTransform(X[i].vals), !.cats = {}]])

\* ----------------------------------------------------------- StandardScaler

RECURSIVE Sum(_)
Sum(s) == IF Len(s) = 0 THEN 0 ELSE s[1] + Sum(Tail(s))

Squares(s) == Tup([i \in 1..Len(s) |-> s[i] * s[i]])

NotFittedScaler == [fitted |-> FALSE, params |-> <<>>]

\* mean_ = sum / n and var_ = q / n^2, kept as the integers n, sum and q
ScalerFit(T) ==
    IF Len(T) = 0 THEN [err |-> "ValueError", scaler |-> NotFittedScaler]
    ELSE [err |-> "none",
          scaler |-> [fitted |-> TRUE,
                      params |-> Tup([i \in 1..Len(T) |->
                          LET n == Len(T[i].vals)
                              s == Sum(T[i].vals)
                          IN  [n |-> n, sum |-> s, q |-> n * Sum(Squares(T[i].vals)) - s * s]])]]

RECURSIVE GCD(_, _)
GCD(a, b) == IF b = 0 THEN a ELSE GCD(b, a % b)

\* (x - mean_) / scale_, where scale_ is 1 for a column of zero variance: the
\* number a / sqrt(d), written <<sign(a) * a^2, d>> in lowest terms
Scale(p, x) ==
    LET a == p.n * x - p.sum
        d == IF p.q = 0 THEN p.n * p.n ELSE p.q
        g == GCD(a * a, d)
    IN  <<(IF a < 0 THEN 0 - 1 ELSE 1) * ((a * a) \div g), d \div g>>

\* partial_fit: the counts, sums and sums of squares of T are added to sc's
ScalerPartialFit(sc, T) ==
    IF ~sc.fitted THEN ScalerFit(T).scaler
    ELSE IF Len(T) # Len(sc.params) THEN sc
    ELSE [fitted |-> TRUE,
          params |-> Tup([i \in 1..Len(T) |->
              LET p == sc.params[i]
                  n == p.n + Len(T[i].vals)
                  s == p.sum + Sum(T[i].vals)
                  ss == ((p.q + p.sum * p.sum) \div p.n) + Sum(Squares(T[i].vals))
              IN  [n |-> n, sum |-> s, q |-> n * ss - s * s]])]

ScalerTransform(sc, T) ==
    IF ~sc.fitted THEN [err |-> "NotFittedError", out |-> <<>>]
    ELSE IF Len(T) # Len(sc.params) THEN [err |-> "ValueError", out |-> <<>>]
    ELSE [err |-> "none",
          out |-> Tup([i \in 1..Len(T) |->
                     Tup([r \in 1..Len(T[i].vals) |-> Scale(sc.params[i], T[i].vals[r])])])]

\* ------------------------------------------------------------ OneHotEncoder

NotFittedOneHot == [fitted |-> FALSE, categories |-> <<>>]

\* categories_: per column, the codes seen at fit
OneHotFit(T) ==
    IF Len(T) = 0 THEN [err |-> "ValueError", onehot |-> NotFittedOneHot]
    ELSE [err |-> "none",
          onehot |-> [fitted |-> TRUE,
                      categories |-> Tup([i \in 1..Len(T) |-> Range(T[i].vals)])]]

Indicators(col, codes) ==
    Tup([k \in 1..Len(codes) |->
        Tup([r \in 1..Len(col.vals) |-> <<IF col.vals[r] = codes[k] THEN 1 ELSE 0, 1>>])])

RECURSIVE OneHotColumns(_, _, _)
OneHotColumns(oh, T, i) ==
    IF i > Len(T) THEN <<>>
    ELSE Indicators(T[i], SortSet(oh.categories[i])) \o OneHotColumns(oh, T, i + 1)

\* an encoder that learns its categories when it has none
OneHotTransformFits(oh, T) ==
    IF Len(T) = 0 THEN [err |-> "ValueError", out |-> <<>>]
    ELSE [err |-> "none", out |-> OneHotColumns(OneHotFit(T).onehot, T, 1)]

\* handle_unknown='error': a code not seen at fit is refused
OneHotTransform(oh, T) ==
    IF ~oh.fitted THEN [err |-> "NotFittedError", out |-> <<>>]
    ELSE IF Len(T) # Len(oh.categories) THEN [err |-> "ValueError", out |-> <<>>]
    ELSE IF \E i \in 1..Len(T) : ~(Range(T[i].vals) \subseteq oh.categories[i])
         THEN [err |-> "ValueError", out |-> <<>>]
    ELSE [err |-> "none", out |-> OneHotColumns(oh, T, 1)]

\* ------------------------------------------ SparseToDataFrameTransformer

\* pd.DataFrame(X.toarray()) with the column labels str(0), str(1), ...;
\* name is the number the label spells
SparseToDataFrameTransform(M) == Tup([i \in 1..Len(M) |-> [name |-> i - 1, vals |-> M[i]]])

\* ----------------------------------------------------- preprocess_pipeline

SelectColumns ==
    <<"age", "workclass", "education-num", "marital-status", "occupation",
      "relationship", "race", "sex", "capital-gain", "capital-loss",
      "hours-per-week", "native-country">>

NoTrace == [done |-> FALSE, stageIn |-> <<>>, stageInCat |-> <<>>, stageAfter |-> <<>>,
            numOut |-> <<>>, catOut |-> <<>>, out |-> <<>>]

\* the branch with a scaler that keeps learning at transform
NumericFeaturesUpdates(fitting, sc, S) ==
    LET T == TypeSelectorTransform({"int64"}, S)
        f == ScalerFit(T)
        sc1 == IF fitting THEN f.scaler ELSE ScalerPartialFit(sc, T)
        t == ScalerTransform(sc1, T)
    IN  [err |-> IF fitting /\ f.err # "none" THEN f.err ELSE t.err,
         out |-> t.out, scaler |-> sc1,
         S |-> WriteThrough(S, T, SelectDtypesCopies)]

\* The "numeric_features" branch on the stage input S: TypeSelector, then
\* StandardScaler (fit_transform when fitting, transform otherwise).  S is the
\* stage input as the branch leaves it.
NumericFeatures(fitting, sc, S) ==
    LET T == TypeSelectorTransform({"int64"}, S)
        f == ScalerFit(T)
        sc1 == IF fitting THEN f.scaler ELSE sc
        t == ScalerTransform(sc1, T)
    IN  [err |-> IF fitting /\ f.err # "none" THEN f.err ELSE t.err,
         out |-> t.out, scaler |-> sc1,
         S |-> WriteThrough(S, T, SelectDtypesCopies)]

\* The "categorical_features" branch on the stage input S: TypeSelector,
\* MissingCategoricalsTransformer(strategy="none"), PipelineAwareLabelEncoder,
\* OneHotEncoder.
CategoricalFeatures(fitting, oh, S) ==
    LET T == TypeSelectorTransform({"category"}, S)
        imp == ImputerTransform("none", T, <<>>)
        enc == PipelineAwareLabelEncoderTransform(imp.X)
        f == OneHotFit(enc)
        oh1 == IF fitting THEN f.onehot ELSE oh
        t == OneHotTransform(oh1, enc)
    IN  IF imp.err # "none"
        THEN [err |-> imp.err, out |-> <<>>, onehot |-> oh,
              S |-> WriteThrough(S, imp.X, SelectDtypesCopies)]
        ELSE [err |-> IF fitting /\ f.err # "none" THEN f.err ELSE t.err,
              out |-> t.out, onehot |-> oh1,
              S |-> WriteThrough(S, enc, SelectDtypesCopies)]

HStackReversed(numOut, catOut) == catOut \o numOut

\* FeatureUnion stacks the branch outputs in transformer_list order
HStack(numOut, catOut) == numOut \o catOut

\* FeatureUnion: the branches run one after the other on the same object S
FeatureUnionRun(fitting, sc, oh, S) ==
    LET num == NumericFeatures(fitting, sc, S)
        cat == CategoricalFeatures(fitting, oh, num.S)
    IN  IF num.err # "none"
        THEN [err |-> num.err, out |-> <<>>, scaler |-> num.scaler, onehot |-> oh,
              S |-> num.S, trace |-> NoTrace]
        ELSE IF cat.err # "none"
        THEN [err |-> cat.err, out |-> <<>>, scaler |-> num.scaler, onehot |-> cat.onehot,
              S |-> cat.S, trace |-> NoTrace]
        ELSE [err |-> "none", out |-> HStack(num.out, cat.out),
              scaler |-> num.scaler, onehot |-> cat.onehot, S |-> cat.S,
              trace |-> [done |-> TRUE, stageIn |-> S, stageInCat |-> num.S,
                         stageAfter |-> cat.S, numOut |-> num.out, catOut |-> cat.out,
                         out |-> HStack(num.out, cat.out)]]

\* The four steps in order.  X is the caller's table as the call leaves it.
PipelineRun(fitting, sc, oh, X0) ==
    LET c == CustomTypeTransform(X0)
        s == ColumnSelectorTransform(SelectColumns, c.X)
        u == FeatureUnionRun(fitting, sc, oh, s.out)
    IN  IF c.err # "none"
        THEN [err |-> c.err, out |-> <<>>, X |-> c.X, scaler |-> sc, onehot |-> oh,
              trace |-> NoTrace]
        ELSE IF s.err # "none"
        THEN [err |-> s.err, out |-> <<>>, X |-> c.X, scaler |-> sc, onehot |-> oh,
              trace |-> NoTrace]
        ELSE [err |-> u.err,
              out |-> IF u.err = "none" THEN SparseToDataFrameTransform(u.out) ELSE <<>>,
              X |-> WriteThrough(c.X, u.S, GetItemCopies),
              scaler |-> u.scaler, onehot |-> u.onehot, trace |-> u.trace]

PipelineFitTransform(sc, oh, X0) == PipelineRun(TRUE, sc, oh, X0)

PipelineTransformRefits(sc, oh, X0) == PipelineRun(TRUE, sc, oh, X0)

\* Pipeline.transform applies every step's transform
PipelineTransform(sc, oh, X0) == PipelineRun(FALSE, sc, oh, X0)

\* ------------------------------------------------------------ input tables

AllColumns ==
    <<"age", "workclass", "education", "education-num", "marital-status",
      "occupation", "relationship", "race", "sex", "capital-gain",
      "capital-loss", "hours-per-week", "native-country">>

NumericColumns == {"age", "education-num", "capital-gain", "capital-loss", "hours-per-week"}

\* A numeric column is int64, or float64 when it holds a missing value
NumColumn(name, vals) ==
    [name |-> name, dtype |-> IF NaN \in Range(vals) THEN "float64" ELSE "int64",
     vals |-> vals, cats |-> {}]

ObjColumn(name, vals) == [name |-> name, dtype |-> "object", vals |-> vals, cats |-> {}]

RECURSIVE Without(_, _)
Without(s, drop) ==
    IF Len(s) = 0 THEN <<>>
    ELSE IF s[1] \in drop THEN Without(Tail(s), drop)
    ELSE <<s[1]>> \o Without(Tail(s), drop)

\* A raw table of n rows: age and workclass as given, the other numeric
\* columns counting the rows, the other label columns constant
MkTable(n, age, wc, drop) ==
    LET cols == Without(AllColumns, drop)
    IN  Tup([i \in 1..Len(cols) |->
            IF cols[i] = "age" THEN NumColumn("age", age)
            ELSE IF cols[i] = "workclass" THEN ObjColumn("workclass", wc)
            ELSE IF cols[i] \in NumericColumns THEN NumColumn(cols[i], Tup([r \in 1..n |-> r]))
            ELSE ObjColumn(cols[i], Tup([r \in 1..n |-> 1]))])

\* age: a multiple of the row number in every row, the first row possibly missing
AgeColumns(n) ==
    {Tup([r \in 1..n |-> IF lead /\ r = 1 THEN NaN ELSE a * r]) : a \in 0..MaxNum, lead \in BOOLEAN}

\* workclass: any label or a missing value in the first row, label 1 below
LabelColumns(n) ==
    {Tup([r \in 1..n |-> IF r = 1 THEN l ELSE 1]) : l \in Labels \cup {NaN}}

Rows(n) == Tup([r \in 1..n |-> r])

\* The tables a caller passes: every age column beside a constant
\* workclass, every workclass column beside a complete age, both columns with
\* a missing value, and two tables that lack columns
RawTables ==
    UNION {{MkTable(n, age, Tup([r \in 1..n |-> 1]), {}) : age \in AgeColumns(n)}
           \cup {MkTable(n, Rows(n), wc, {}) : wc \in LabelColumns(n)}
           \cup {MkTable(n, Tup([r \in 1..n |-> IF r = 1 THEN NaN ELSE r]),
                         Tup([r \in 1..n |-> IF r = 1 THEN NaN ELSE 1]), {})}
              : n \in 1..MaxRows}
    \cup {MkTable(MaxRows, Rows(MaxRows), Tup([r \in 1..MaxRows |-> NaN]), drop)
              : drop \in {{"education"}, {"age", "sex"}}}

\* ------------------------------------------------------------------- state

VARIABLES
    X,            \* the table object the caller passed last, as it is now (<<>>: none yet)
    scaler,       \* the StandardScaler's learned state
    onehot,       \* the OneHotEncoder's learned state
    learnedAtFit, \* <<scaler, onehot>> as the last fit call left them
    fitDone,      \* some fit or fit_transform call has returned normally
    res,          \* the last call: op, table before, error, returned matrix, trace
    rep,          \* chain: the call before the last transform was a transform too;
                  \* same: and of the same table, with that call's error and matrix
    unit          \* the last call of a transformer on its own

vars == <<X, scaler, onehot, learnedAtFit, fitDone, res, rep, unit>>

NoCall == [op |-> "none", before |-> <<>>, err |-> "none", out |-> <<>>, trace |-> NoTrace]

NoRep == [chain |-> FALSE, same |-> FALSE, err |-> "none", out |-> <<>>]

NoUnit == [op |-> "none", arg |-> <<>>, before |-> <<>>, after |-> <<>>, err |-> "none",
           cols_error |-> {}, out |-> <<>>]

Init ==
    /\ X = <<>>
    /\ scaler = NotFittedScaler
    /\ onehot = NotFittedOneHot
    /\ learnedAtFit = <<NotFittedScaler, NotFittedOneHot>>
    /\ fitDone = FALSE
    /\ res = NoCall
    /\ rep = NoRep
    /\ unit = NoUnit

\* pipeline.fit(T): T is the table object passed before (T = X) or a new one
Fit ==
    \E T \in RawTables \cup {X} :
        \E run \in {PipelineFitTransform(scaler, onehot, T)} :
            /\ X' = run.X
            /\ scaler' = run.scaler
            /\ onehot' = run.onehot
            /\ learnedAtFit' = <<run.scaler, run.onehot>>
            /\ fitDone' = (fitDone \/ run.err = "none")
            /\ res' = [op |-> "fit", before |-> T, err |-> run.err, out |-> <<>>,
                       trace |-> run.trace]
            /\ rep' = NoRep
            /\ UNCHANGED unit

\* pipeline.fit_transform(T)
FitTransform ==
    \E T \in RawTables \cup {X} :
        \E run \in {PipelineFitTransform(scaler, onehot, T)} :
            /\ X' = run.X
            /\ scaler' = run.scaler
            /\ onehot' = run.onehot
            /\ learnedAtFit' = <<run.scaler, run.onehot>>
            /\ fitDone' = (fitDone \/ run.err = "none")
            /\ res' = [op |-> "fit_transform", before |-> T, err |-> run.err,
                       out |-> run.out, trace |-> run.trace]
            /\ rep' = NoRep
            /\ UNCHANGED unit

\* pipeline.transform(T)
Transform ==
    \E T \in RawTables \cup {X} :
        \E run \in {PipelineTransform(scaler, onehot, T)} :
            /\ X' = run.X
            /\ scaler' = run.scaler
            /\ onehot' = run.onehot
            /\ res' = [op |-> "transform", before |-> T, err |-> run.err,
                       out |-> run.out, trace |-> run.trace]
            /\ rep' = IF res.op = "transform" /\ (T = X \/ T = res.before)
                      THEN [chain |-> TRUE, same |-> TRUE, err |-> res.err, out |-> res.out]
                      ELSE [NoRep EXCEPT !.chain = (res.op = "transform")]
            /\ UNCHANGED <<learnedAtFit, fitDone, unit>>

Next == Fit \/ FitTransform \/ Transform

Spec == Init /\ [][Next]_vars

\* ------------------------------------------------- claims on the pipeline

LacksColumn(T) == \E c \in Range(CoerceColumns) \cup Range(SelectColumns) : ~HasCol(T, c)

HasMissingLabel(T) ==
    \E i \in 1..Len(T) : T[i].dtype = "category" /\ NaN \in Range(T[i].vals)

\* C1, as stated: a transform call made while no fit has completed fails with
\* NotFittedError and returns no matrix, whatever the table
C1_TransformBeforeFitNotFitted ==
    (res.op = "transform" /\ ~fitDone) => (res.err = "NotFittedError" /\ res.out = <<>>)

\* C1, amended: while no fit has completed, every transform call fails and
\* returns no matrix, and the encoder stays unfitted however many transform
\* calls were made; the error is KeyError exactly when the table lacks a
\* column the pipeline coerces or selects, and NotFittedError when the table
\* has them all and the scaler has learned nothing yet
C1_TransformBeforeFitFails ==
    ~fitDone =>
        /\ ~onehot.fitted
        /\ res.op = "transform" =>
            /\ res.err # "none"
            /\ res.out = <<>>
            /\ (res.err = "KeyError") <=> LacksColumn(res.before)
            /\ (~LacksColumn(res.before) /\ ~scaler.fitted) => res.err = "NotFittedError"

\* a second transform in a row, before any fit, fails with NotFittedError as the first
C1_Witness ==
    /\ ~fitDone /\ res.op = "transform" /\ rep.same
    /\ rep.err = "NotFittedError" /\ res.err = "NotFittedError"

\* C2: after a fit, two transform calls in a row on the same table (the same
\* object, or a table equal to the one the first call was given) return the
\* same matrix, or fail alike
C2_TransformIdempotent ==
    (fitDone /\ res.op = "transform" /\ rep.same) =>
        (res.err = rep.err /\ res.out = rep.out)

\* the second call got the object the first call had coerced in place, with
\* a missing label in it, and returned a matrix
C2_Witness ==
    /\ fitDone /\ res.op = "transform" /\ rep.same /\ res.err = "none"
    /\ res.before = X /\ HasMissingLabel(res.before)
    /\ Len(res.out) > 0

\* C3: the scaler's and the encoder's learned state is what the last fit
\* call left, whatever transform calls followed, and a transform call returns
\* what that state yields for its table
C3_TransformKeepsLearnedState ==
    /\ <<scaler, onehot>> = learnedAtFit
    /\ res.op = "transform" =>
        \E run \in {PipelineTransform(learnedAtFit[1], learnedAtFit[2], res.before)} :
            run.err = res.err /\ run.out = res.out

\* a transform after another transform of another table, on a table whose own
\* statistics differ from the learned ones
C3_Witness ==
    /\ fitDone /\ res.op = "transform" /\ res.err = "none"
    /\ rep.chain /\ ~rep.same
    /\ ScalerFit(TypeSelectorTransform({"int64"}, res.trace.stageIn)).scaler # scaler

\* C4: a call leaves the caller's table as it was
C4_InputTableReadOnly == res.op # "none" => X = res.before

\* C9: where the union ran, the categorical branch was given the stage input
\* the numeric branch was given, the stage input is left as it was, each
\* branch's output is what that branch yields for the stage input, the stage
\* output is the numeric columns followed by the categorical ones, each as
\* long as the input has rows, and it is the matrix returned
C9_FeatureUnion ==
    res.trace.done =>
        \E tr \in {res.trace} :
            /\ tr.stageInCat = tr.stageIn
            /\ tr.stageAfter = tr.stageIn
            /\ tr.numOut = ScalerTransform(scaler, TypeSelectorTransform({"int64"}, tr.stageIn)).out
            /\ tr.catOut = CategoricalFeatures(FALSE, onehot, tr.stageIn).out
            /\ Len(tr.out) = Len(tr.numOut) + Len(tr.catOut)
            /\ SubSeq(tr.out, 1, Len(tr.numOut)) = tr.numOut
            /\ SubSeq(tr.out, Len(tr.numOut) + 1, Len(tr.out)) = tr.catOut
            /\ \A i \in 1..Len(tr.out) : Len(tr.out[i]) = NRows(tr.stageIn)
            /\ res.op # "fit" =>
                 /\ Len(res.out) = Len(tr.out)
                 /\ \A i \in 1..Len(tr.out) : res.out[i].vals = tr.out[i]

\* a transform whose categorical branch filled a missing label in its input
C9_Witness ==
    /\ res.trace.done /\ res.op = "transform"
    /\ Len(res.trace.numOut) > 0 /\ Len(res.trace.catOut) > 0
    /\ HasMissingLabel(res.trace.stageIn)

\* C10: the numeric branch yields one column for every int64 or float64
\* column of the stage input
C10_NumericBranchWidth ==
    res.trace.done =>
        Len(res.trace.numOut) =
            Cardinality({i \in 1..Len(res.trace.stageIn) :
                            res.trace.stageIn[i].dtype \in {"int64", "float64"}})

\* ---------------------------------------------- the transformers on their own

MaxReq == 2

Pool == {"age", "workclass", "sex"}

\* Tables of one row that lack some of the pooled columns
SelectorTables == {MkTable(1, <<0>>, <<1>>, drop) : drop \in SUBSET Pool}

ReqLists == {SelectColumns} \cup UNION {[1..k -> Pool] : k \in 1..MaxReq}

\* ColumnSelector(columns).transform(T)
SelectorTransform ==
    \E columns \in ReqLists, T \in SelectorTables :
        \E r \in {ColumnSelectorTransform(columns, T)} :
            /\ unit' = [op |-> "ColumnSelector", arg |-> columns, before |-> T, after |-> T,
                        err |-> r.err, cols_error |-> r.cols_error, out |-> r.out]
            /\ UNCHANGED <<X, scaler, onehot, learnedAtFit, fitDone, res, rep>>

CatColumn(name, vals, extra) ==
    [name |-> name, dtype |-> "category", vals |-> vals,
     cats |-> {v \in Range(vals) : v # NaN} \cup extra]

\* Tables of category columns, as TypeSelector(dtypes=["category"]) yields
\* them: none, "workclass" alone, or "workclass" and "sex"; a column's
\* categories are its labels, with or without an unused "Unknown"
CatTables ==
    {<<>>}
    \cup UNION {{<<CatColumn("workclass", Tup(vals), extra)>> \o second
                    : vals \in [1..n -> Labels \cup {NaN}], extra \in {{}, {Unknown}},
                      second \in {<<>>, <<CatColumn("sex", Tup([r \in 1..n |-> NaN]), {1})>>}}
                 : n \in 1..MaxRows}

Strategies == {"none", "most_frequent", "median"}

\* MissingCategoricalsTransformer(strategy).transform(T)
ImputerCall ==
    \E strategy \in Strategies, T \in CatTables :
        \E pick \in Picks(T) :
            \E r \in {ImputerTransform(strategy, T, pick)} :
                /\ unit' = [op |-> "Imputer", arg |-> strategy, before |-> T, after |-> r.X,
                            err |-> r.err, cols_error |-> {},
                            out |-> IF r.err = "none" THEN r.X ELSE <<>>]
                /\ UNCHANGED <<X, scaler, onehot, learnedAtFit, fitDone, res, rep>>

\* Tables of two category columns without missing values, as the imputer
\* hands them on: any labels in "workclass", beside a "sex" column of any
\* label in the first row and label 1 below
EncoderTables ==
    UNION {{<<CatColumn("workclass", Tup(v1), {}),
              CatColumn("sex", Tup([r \in 1..n |-> IF r = 1 THEN l ELSE 1]), {})>>
                : v1 \in [1..n -> Labels], l \in Labels}
             : n \in 1..MaxRows}

\* PipelineAwareLabelEncoder().transform(T)
EncoderCall ==
    \E T \in EncoderTables :
        \E r \in {PipelineAwareLabelEncoderTransform(T)} :
            /\ unit' = [op |-> "LabelEncoder", arg |-> <<>>, before |-> T, after |-> r,
                        err |-> "none", cols_error |-> {}, out |-> r]
            /\ UNCHANGED <<X, scaler, onehot, learnedAtFit, fitDone, res, rep>>

NextUnits == SelectorTransform \/ ImputerCall \/ EncoderCall

SpecUnits == Init /\ [][NextUnits]_vars

\* ------------------------------------------- claims on the transformers

Absent(columns, T) == {c \in Range(columns) : ~HasCol(T, c)}

\* C5: with a requested column absent, ColumnSelector.transform fails and
\* the error lists exactly the requested columns that are absent; with none
\* absent it returns the requested columns in the requested order
C5_ColumnSelector ==
    unit.op = "ColumnSelector" =>
        /\ Absent(unit.arg, unit.before) # {} =>
              /\ unit.err = "KeyError"
              /\ unit.cols_error = Absent(unit.arg, unit.before)
              /\ unit.out = <<>>
        /\ Absent(unit.arg, unit.before) = {} =>
              /\ unit.err = "none"
              /\ Len(unit.out) = Len(unit.arg)
              /\ \A i \in 1..Len(unit.arg) :
                    /\ unit.out[i].name = unit.arg[i]
                    /\ unit.out[i] = ColOf(unit.before, unit.arg[i])

\* two requested columns are absent and others are present
C5_Witness ==
    /\ unit.op = "ColumnSelector" /\ unit.err = "KeyError"
    /\ Cardinality(unit.cols_error) = 2
    /\ \E c \in Range(unit.arg) : HasCol(unit.before, c)

\* C6: with strategy 'none' the imputer succeeds on every table of category
\* columns; its result has "Unknown" in every cell that was missing, every
\* other cell as it was, and "Unknown" added to the categories
C6_ImputerFillsUnknown ==
    (unit.op = "Imputer" /\ unit.arg = "none") =>
        /\ unit.err = "none"
        /\ Len(unit.out) = Len(unit.before)
        /\ \A i \in 1..Len(unit.before) :
              /\ unit.out[i].cats = unit.before[i].cats \cup {Unknown}
              /\ \A r \in 1..Len(unit.before[i].vals) :
                    unit.out[i].vals[r] =
                        IF unit.before[i].vals[r] = NaN THEN Unknown
                        ELSE unit.before[i].vals[r]

\* C7: with a strategy other than 'none' and 'most_frequent' the imputer
\* fails on every table
C7_ImputerRejectsStrategy ==
    (unit.op = "Imputer" /\ unit.arg \notin {"none", "most_frequent"}) =>
        unit.err = "Exception"

\* C8: the label encoder replaces, column by column, every value by the
\* number of distinct smaller values of that column: a code in 0..k-1 for
\* the k distinct values of the column, in the order of the labels, every
\* code used, whatever the other column holds
C8_LabelEncoder ==
    unit.op = "LabelEncoder" =>
        /\ unit.err = "none"
        /\ Len(unit.out) = Len(unit.before)
        /\ \A i \in 1..Len(unit.before) :
              \E v \in {unit.before[i].vals}, c \in {unit.out[i].vals} :
                  /\ unit.out[i].name = unit.before[i].name
                  /\ Len(c) = Len(v)
                  /\ \A r \in 1..Len(v) :
                        /\ c[r] \in 0..(Cardinality(Range(v)) - 1)
                        /\ c[r] = Cardinality({w \in Range(v) : w < v[r]})
                  /\ \A r1, r2 \in 1..Len(v) : (v[r1] < v[r2]) <=> (c[r1] < c[r2])
                  /\ Range(c) = 0..(Cardinality(Range(v)) - 1)

\* a column whose first label is the larger one, beside a constant column
C8_Witness ==
    /\ unit.op = "LabelEncoder"
    /\ Len(unit.before[1].vals) > 1
    /\ unit.before[1].vals[1] > unit.before[1].vals[2]
    /\ unit.out[1].vals[1] = 1 /\ unit.out[1].vals[2] = 0
    /\ Cardinality(Range(unit.before[2].vals)) = 1

====
